---------------------------- MODULE Spec2Model ----------------------------
(***************************************************************************)
(* A model of index-bloom: the tokenizer (src/src/tokens.rs), the Bloom    *)
(* filter (src/src/bloom_filter.rs), the index built on them               *)
(* (src/src/index.rs) and its serde persisted form.                        *)
(*                                                                         *)
(* Text is a sequence of characters, a character is its Unicode code       *)
(* point (97 is "a", 65 is "A", 32 is the space, 10 is the line feed).     *)
(* An error rate (an f32 in the code) is the integer number of hundredths: *)
(* 5 is 0.05, 50 is 0.5.                                                   *)
(***************************************************************************)
EXTENDS Integers, Sequences, FiniteSets, TLC

VARIABLES
    \* Index (src/src/index.rs:10-13)
    error_rate,      \* Index.error_rate
    bloom_filters,   \* Index.bloom_filters: a function from the names held to filters
    \* the last call on the index and what it returned
    lastOp,          \* "new", "ingest", "search", "dump", "restore"
    outcome,         \* "ok" when the call returned Ok, "err" when it returned Err, "panic" when it panicked
    lastName,        \* the name given to the last ingest
    lastTokens,      \* the tokens of the text given to the last ingest or search
    result,          \* what the last search returned: [some, list]
    origResult,      \* what the index a restore replaced returns to the same search
    dumped,          \* the serialized form of the current index, <<>> when there is none
    \* history kept for the properties
    docs,            \* name -> the token set of the content last ingested under it
    replaced,        \* the last ingest found a filter under its name
    orig,            \* the index a restore replaced
    input,           \* the persisted text given to the last restore
    \* one BloomFilter on its own (src/src/bloom_filter.rs:10-14)
    filter,          \* [key_size, bitfield, bitfield_size]
    fArgs,           \* the (capacity, err_rate) given to BloomFilter::new
    inserted,        \* the keys inserted so far
    fOp,             \* "none", "new", "insert", "contains"
    fKey,            \* the key of the last insert or contains
    fResult,         \* what the last contains returned
    \* one Tokens iterator on its own (src/src/tokens.rs:4-6)
    text,            \* the text given to Tokens::new
    tWords,          \* Tokens.words: the words next has not taken yet
    yielded,         \* the tokens next returned so far
    tOp              \* "none", "new", "some" (next returned a token), "end" (it returned None)

vars == <<error_rate, bloom_filters, lastOp, outcome, lastName, lastTokens, result,
          origResult, dumped, docs, replaced, orig, input,
          filter, fArgs, inserted, fOp, fKey, fResult,
          text, tWords, yielded, tOp>>

indexVars == <<error_rate, bloom_filters, lastOp, outcome, lastName, lastTokens,
               result, origResult, dumped, docs, replaced, orig, input>>

filterVars == <<filter, fArgs, inserted, fOp, fKey, fResult>>

tokenVars == <<text, tWords, yielded, tOp>>

----------------------------------------------------------------------------
(* Bounds of the model *)

\* the most words in a content or in a query
MaxWords == 2
\* the largest capacity given to BloomFilter::new on its own
MaxCapacity == 3
\* the most characters in a text given to Tokens::new on its own
MaxChars == 3

----------------------------------------------------------------------------
(* Generic helpers *)

Range(s) == {s[i] : i \in DOMAIN s}

RECURSIVE Flatten(_)
Flatten(ss) == IF ss = <<>> THEN <<>> ELSE Head(ss) \o Flatten(Tail(ss))

\* all sequences over S of length 0..n
SeqsUpTo(S, n) == UNION {[1..k -> S] : k \in 0..n}

\* the orders in which the elements of a finite set S can be listed
Orders(S) == {o \in [1..Cardinality(S) -> S] : Range(o) = S}

----------------------------------------------------------------------------
(* Tokenizer: src/src/tokens.rs *)

LF == 10
CR == 13

\* char::is_whitespace, on the characters of the model
IsWhitespace(c) == c \in {9, 10, 11, 12, 13, 32}

\* str::split_whitespace: the maximal runs of non-whitespace characters
RECURSIVE split_ws(_, _)
split_ws(s, cur) ==
    IF s = <<>> THEN (IF cur = <<>> THEN <<>> ELSE <<cur>>)
    ELSE IF IsWhitespace(Head(s))
         THEN (IF cur = <<>> THEN <<>> ELSE <<cur>>) \o split_ws(Tail(s), <<>>)
         ELSE split_ws(Tail(s), Append(cur, Head(s)))

split_whitespace(s) == split_ws(s, <<>>)

\* str::lines: split at line feeds, a carriage return before one dropped, no
\* last empty line
StripCR(l) ==
    IF l # <<>> /\ l[Len(l)] = CR THEN SubSeq(l, 1, Len(l) - 1) ELSE l

RECURSIVE lines_from(_, _)
lines_from(s, cur) ==
    IF s = <<>> THEN (IF cur = <<>> THEN <<>> ELSE <<cur>>)
    ELSE IF Head(s) = LF
         THEN <<StripCR(cur)>> \o lines_from(Tail(s), <<>>)
         ELSE lines_from(Tail(s), Append(cur, Head(s)))

lines(s) == lines_from(s, <<>>)

\* unidecode: ASCII is kept; 233 (e acute) folds to 101 (e), as the test
\* normalize_words expects, 201 (E acute) to 69 (E) and 191 (the inverted
\* question mark) to 63 (?); other characters are not part of the model
unidecode_char(c) ==
    IF c < 128 THEN <<c>>
    ELSE IF c = 233 THEN <<101>>
    ELSE IF c = 201 THEN <<69>>
    ELSE IF c = 191 THEN <<63>>
    ELSE <<>>

unidecode(word) == Flatten([i \in DOMAIN word |-> unidecode_char(word[i])])

\* . ! ? , ; : / & # * _ ( ) [ ] { } < > ' ` "
Punctuation ==
    {46, 33, 63, 44, 59, 58, 47, 38, 35, 42, 95, 40, 41, 91, 93, 123, 125, 60, 62,
     39, 96, 34}

\* a variant of clean_word: the replace of the comma is missing
clean_word_keep_comma(word) == SelectSeq(word, LAMBDA c : c \notin Punctuation \ {44})

clean_word(word) == SelectSeq(word, LAMBDA c : c \notin Punctuation)

\* str::to_lowercase on ASCII
to_lowercase(word) ==
    [i \in DOMAIN word |-> IF word[i] >= 65 /\ word[i] <= 90 THEN word[i] + 32 ELSE word[i]]

\* Iterator::next over the words: a word whose token is empty is skipped
RECURSIVE tokens_of_words(_)
tokens_of_words(ws) ==
    IF ws = <<>> THEN <<>>
    ELSE LET ascii_word == unidecode(Head(ws))
             token == to_lowercase(clean_word(ascii_word))
         IN  (IF token # <<>> THEN <<token>> ELSE <<>>) \o tokens_of_words(Tail(ws))

\* Iterator::next on the words left: Some(token) of the first word whose token
\* is not empty, the words after it left; None when there is no such word
RECURSIVE Tokens_next(_)
Tokens_next(ws) ==
    IF ws = <<>> THEN [some |-> FALSE, token |-> <<>>, words |-> <<>>]
    ELSE LET ascii_word == unidecode(Head(ws))
             token == to_lowercase(clean_word(ascii_word))
         IN  IF token # <<>> THEN [some |-> TRUE, token |-> token, words |-> Tail(ws)]
             ELSE Tokens_next(Tail(ws))

\* Tokens::new(words) collected: the tokens in input order
Tokens(words) == tokens_of_words(split_whitespace(words))

----------------------------------------------------------------------------
(* Bloom filter: src/src/bloom_filter.rs *)

\* f32 logarithms in millionths: err_rate.ln(), 2.0_f32.ln() and
\* factor = ln(1 / 2^(ln 2)) = -(ln 2)^2
Micro == 1000000
Ln2 == 693147
Factor == -480453
Ln(err_rate) ==
    CASE err_rate = 5  -> -2995732
      [] err_rate = 10 -> -2302585
      [] err_rate = 20 -> -1609438
      [] err_rate = 50 -> -693147
      [] err_rate = 99 -> -10050

\* ceil(a / b) for a >= 0, b > 0
Ceil(a, b) == (a + b - 1) \div b

\* BloomFilter::new; capacity = 0 panics
new_panics(capacity) == capacity = 0

\* a variant of BloomFilter_new: the bytes are floor(m / 8)
BloomFilter_new_floor(capacity, err_rate) ==
    LET bitfield_size == Ceil(-(capacity * Ln(err_rate)), -Factor)
        key_size == Ceil(bitfield_size * Ln2, capacity * Micro)
        bytes == bitfield_size \div 8
    IN  [key_size |-> key_size,
         bitfield |-> [i \in 1..bytes |-> 0],
         bitfield_size |-> bitfield_size]

BloomFilter_new(capacity, err_rate) ==
    LET bitfield_size == Ceil(-(capacity * Ln(err_rate)), -Factor)
        key_size == Ceil(bitfield_size * Ln2, capacity * Micro)
        bytes == Ceil(bitfield_size, 8)
    IN  [key_size |-> key_size,
         bitfield |-> [i \in 1..bytes |-> 0],
         bitfield_size |-> bitfield_size]

\* VarBlake2b::new(4) over a buffer: the 4 digest bytes of BLAKE2b with a 4-byte
\* output, for every buffer the model hashes (a key of a and b, repeated)
Blake2b4Table ==
   (<<97>> :> <<202,35,76,85>>) @@
   (<<98>> :> <<253,157,63,81>>) @@
   (<<97,97>> :> <<33,195,32,28>>) @@
   (<<97,98>> :> <<58,232,151,167>>) @@
   (<<98,97>> :> <<40,65,136,56>>) @@
   (<<98,98>> :> <<223,171,27,170>>) @@
   (<<97,97,97>> :> <<190,57,31,58>>) @@
   (<<97,97,98>> :> <<236,192,138,133>>) @@
   (<<97,98,97>> :> <<160,109,11,143>>) @@
   (<<97,98,98>> :> <<222,202,100,4>>) @@
   (<<98,97,97>> :> <<13,106,177,2>>) @@
   (<<98,97,98>> :> <<174,194,71,163>>) @@
   (<<98,98,97>> :> <<180,51,97,243>>) @@
   (<<98,98,98>> :> <<166,205,157,34>>) @@
   (<<97,97,97,97>> :> <<112,239,1,84>>) @@
   (<<97,97,97,98>> :> <<239,50,70,50>>) @@
   (<<97,97,98,97>> :> <<38,22,150,58>>) @@
   (<<97,97,98,98>> :> <<67,227,91,23>>) @@
   (<<97,98,97,97>> :> <<63,68,28,129>>) @@
   (<<97,98,97,98>> :> <<17,85,139,23>>) @@
   (<<97,98,98,97>> :> <<201,210,78,243>>) @@
   (<<97,98,98,98>> :> <<95,215,169,98>>) @@
   (<<98,97,97,97>> :> <<169,171,136,67>>) @@
   (<<98,97,97,98>> :> <<131,75,207,188>>) @@
   (<<98,97,98,97>> :> <<33,171,210,145>>) @@
   (<<98,97,98,98>> :> <<52,159,129,195>>) @@
   (<<98,98,97,97>> :> <<51,61,115,152>>) @@
   (<<98,98,97,98>> :> <<147,157,203,254>>) @@
   (<<98,98,98,97>> :> <<150,60,4,240>>) @@
   (<<98,98,98,98>> :> <<49,65,147,237>>) @@
   (<<97,97,97,97,97>> :> <<7,71,85,228>>) @@
   (<<98,98,98,98,98>> :> <<26,195,71,79>>) @@
   (<<97,97,97,97,97,97>> :> <<202,195,40,68>>) @@
   (<<97,97,98,97,97,98>> :> <<246,89,89,170>>) @@
   (<<97,98,97,97,98,97>> :> <<109,208,57,209>>) @@
   (<<97,98,97,98,97,98>> :> <<247,233,163,119>>) @@
   (<<97,98,98,97,98,98>> :> <<208,6,130,173>>) @@
   (<<98,97,97,98,97,97>> :> <<89,38,4,18>>) @@
   (<<98,97,98,97,98,97>> :> <<41,65,225,52>>) @@
   (<<98,97,98,98,97,98>> :> <<124,36,183,225>>) @@
   (<<98,98,97,98,98,97>> :> <<30,102,46,167>>) @@
   (<<98,98,98,98,98,98>> :> <<131,78,185,84>>) @@
   (<<97,97,97,97,97,97,97,97>> :> <<181,5,66,22>>) @@
   (<<97,97,97,98,97,97,97,98>> :> <<103,245,3,92>>) @@
   (<<97,97,98,97,97,97,98,97>> :> <<38,139,120,216>>) @@
   (<<97,97,98,98,97,97,98,98>> :> <<61,89,11,186>>) @@
   (<<97,98,97,97,97,98,97,97>> :> <<138,83,59,47>>) @@
   (<<97,98,97,98,97,98,97,98>> :> <<143,98,30,149>>) @@
   (<<97,98,98,97,97,98,98,97>> :> <<155,231,73,118>>) @@
   (<<97,98,98,98,97,98,98,98>> :> <<194,3,0,248>>) @@
   (<<98,97,97,97,98,97,97,97>> :> <<186,48,189,87>>) @@
   (<<98,97,97,98,98,97,97,98>> :> <<111,144,44,69>>) @@
   (<<98,97,98,97,98,97,98,97>> :> <<179,112,238,155>>) @@
   (<<98,97,98,98,98,97,98,98>> :> <<118,100,41,61>>) @@
   (<<98,98,97,97,98,98,97,97>> :> <<231,133,209,205>>) @@
   (<<98,98,97,98,98,98,97,98>> :> <<217,159,63,124>>) @@
   (<<98,98,98,97,98,98,98,97>> :> <<217,85,85,30>>) @@
   (<<98,98,98,98,98,98,98,98>> :> <<119,19,177,10>>) @@
   (<<97,97,97,97,97,97,97,97,97>> :> <<56,34,107,17>>) @@
   (<<97,97,98,97,97,98,97,97,98>> :> <<74,93,128,11>>) @@
   (<<97,98,97,97,98,97,97,98,97>> :> <<48,213,71,145>>) @@
   (<<97,98,98,97,98,98,97,98,98>> :> <<124,110,73,206>>) @@
   (<<98,97,97,98,97,97,98,97,97>> :> <<152,237,45,133>>) @@
   (<<98,97,98,98,97,98,98,97,98>> :> <<30,240,182,182>>) @@
   (<<98,98,97,98,98,97,98,98,97>> :> <<109,22,60,210>>) @@
   (<<98,98,98,98,98,98,98,98,98>> :> <<28,131,129,90>>) @@
   (<<97,97,97,97,97,97,97,97,97,97>> :> <<166,200,124,14>>) @@
   (<<97,98,97,98,97,98,97,98,97,98>> :> <<100,135,13,137>>) @@
   (<<98,97,98,97,98,97,98,97,98,97>> :> <<187,58,113,128>>) @@
   (<<98,98,98,98,98,98,98,98,98,98>> :> <<236,198,48,222>>) @@
   (<<97,97,97,97,97,97,97,97,97,97,97,97>> :> <<239,103,191,3>>) @@
   (<<97,97,97,98,97,97,97,98,97,97,97,98>> :> <<62,164,2,38>>) @@
   (<<97,97,98,97,97,97,98,97,97,97,98,97>> :> <<4,220,133,216>>) @@
   (<<97,97,98,97,97,98,97,97,98,97,97,98>> :> <<63,127,71,0>>) @@
   (<<97,97,98,98,97,97,98,98,97,97,98,98>> :> <<240,177,192,107>>) @@
   (<<97,98,97,97,97,98,97,97,97,98,97,97>> :> <<251,153,246,181>>) @@
   (<<97,98,97,97,98,97,97,98,97,97,98,97>> :> <<202,48,166,118>>) @@
   (<<97,98,97,98,97,98,97,98,97,98,97,98>> :> <<150,235,206,82>>) @@
   (<<97,98,98,97,97,98,98,97,97,98,98,97>> :> <<36,212,90,202>>) @@
   (<<97,98,98,97,98,98,97,98,98,97,98,98>> :> <<99,23,149,116>>) @@
   (<<97,98,98,98,97,98,98,98,97,98,98,98>> :> <<166,174,65,208>>) @@
   (<<98,97,97,97,98,97,97,97,98,97,97,97>> :> <<199,128,110,19>>) @@
   (<<98,97,97,98,97,97,98,97,97,98,97,97>> :> <<66,191,139,153>>) @@
   (<<98,97,97,98,98,97,97,98,98,97,97,98>> :> <<68,135,5,142>>) @@
   (<<98,97,98,97,98,97,98,97,98,97,98,97>> :> <<220,79,209,48>>) @@
   (<<98,97,98,98,97,98,98,97,98,98,97,98>> :> <<130,59,222,134>>) @@
   (<<98,97,98,98,98,97,98,98,98,97,98,98>> :> <<165,15,244,189>>) @@
   (<<98,98,97,97,98,98,97,97,98,98,97,97>> :> <<232,121,63,247>>) @@
   (<<98,98,97,98,98,97,98,98,97,98,98,97>> :> <<178,151,205,106>>) @@
   (<<98,98,97,98,98,98,97,98,98,98,97,98>> :> <<30,128,9,10>>) @@
   (<<98,98,98,97,98,98,98,97,98,98,98,97>> :> <<82,19,97,77>>) @@
   (<<98,98,98,98,98,98,98,98,98,98,98,98>> :> <<49,42,94,140>>) @@
   (<<97,97,97,97,97,97,97,97,97,97,97,97,97,97,97>> :> <<242,244,11,154>>) @@
   (<<97,97,98,97,97,98,97,97,98,97,97,98,97,97,98>> :> <<54,110,23,93>>) @@
   (<<97,98,97,97,98,97,97,98,97,97,98,97,97,98,97>> :> <<146,106,31,80>>) @@
   (<<97,98,98,97,98,98,97,98,98,97,98,98,97,98,98>> :> <<34,230,137,57>>) @@
   (<<98,97,97,98,97,97,98,97,97,98,97,97,98,97,97>> :> <<78,208,142,208>>) @@
   (<<98,97,98,98,97,98,98,97,98,98,97,98,98,97,98>> :> <<147,52,110,6>>) @@
   (<<98,98,97,98,98,97,98,98,97,98,98,97,98,98,97>> :> <<141,99,200,206>>) @@
   (<<98,98,98,98,98,98,98,98,98,98,98,98,98,98,98>> :> <<221,102,5,188>>) @@
   (<<97,97,97,97,97,97,97,97,97,97,97,97,97,97,97,97>> :> <<194,63,63,213>>) @@
   (<<97,97,97,98,97,97,97,98,97,97,97,98,97,97,97,98>> :> <<239,132,105,230>>) @@
   (<<97,97,98,97,97,97,98,97,97,97,98,97,97,97,98,97>> :> <<143,26,17,243>>) @@
   (<<97,97,98,98,97,97,98,98,97,97,98,98,97,97,98,98>> :> <<214,176,201,47>>) @@
   (<<97,98,97,97,97,98,97,97,97,98,97,97,97,98,97,97>> :> <<7,230,74,51>>) @@
   (<<97,98,97,98,97,98,97,98,97,98,97,98,97,98,97,98>> :> <<154,8,171,60>>) @@
   (<<97,98,98,97,97,98,98,97,97,98,98,97,97,98,98,97>> :> <<168,237,179,83>>) @@
   (<<97,98,98,98,97,98,98,98,97,98,98,98,97,98,98,98>> :> <<27,176,94,52>>) @@
   (<<98,97,97,97,98,97,97,97,98,97,97,97,98,97,97,97>> :> <<122,6,244,236>>) @@
   (<<98,97,97,98,98,97,97,98,98,97,97,98,98,97,97,98>> :> <<219,81,137,152>>) @@
   (<<98,97,98,97,98,97,98,97,98,97,98,97,98,97,98,97>> :> <<110,3,117,95>>) @@
   (<<98,97,98,98,98,97,98,98,98,97,98,98,98,97,98,98>> :> <<24,82,138,138>>) @@
   (<<98,98,97,97,98,98,97,97,98,98,97,97,98,98,97,97>> :> <<94,15,193,115>>) @@
   (<<98,98,97,98,98,98,97,98,98,98,97,98,98,98,97,98>> :> <<20,111,112,112>>) @@
   (<<98,98,98,97,98,98,98,97,98,98,98,97,98,98,98,97>> :> <<26,142,44,64>>) @@
   (<<98,98,98,98,98,98,98,98,98,98,98,98,98,98,98,98>> :> <<68,123,39,123>>) @@
   (<<97,97,97,97,97,97,97,97,97,97,97,97,97,97,97,97,97,97,97,97>> :> <<76,145,93,34>>) @@
   (<<97,97,97,98,97,97,97,98,97,97,97,98,97,97,97,98,97,97,97,98>> :> <<251,160,50,115>>) @@
   (<<97,97,98,97,97,97,98,97,97,97,98,97,97,97,98,97,97,97,98,97>> :> <<212,24,178,177>>) @@
   (<<97,97,98,98,97,97,98,98,97,97,98,98,97,97,98,98,97,97,98,98>> :> <<30,47,43,97>>) @@
   (<<97,98,97,97,97,98,97,97,97,98,97,97,97,98,97,97,97,98,97,97>> :> <<204,182,79,175>>) @@
   (<<97,98,97,98,97,98,97,98,97,98,97,98,97,98,97,98,97,98,97,98>> :> <<82,132,244,105>>) @@
   (<<97,98,98,97,97,98,98,97,97,98,98,97,97,98,98,97,97,98,98,97>> :> <<217,252,190,221>>) @@
   (<<97,98,98,98,97,98,98,98,97,98,98,98,97,98,98,98,97,98,98,98>> :> <<40,79,131,112>>) @@
   (<<98,97,97,97,98,97,97,97,98,97,97,97,98,97,97,97,98,97,97,97>> :> <<96,54,199,255>>) @@
   (<<98,97,97,98,98,97,97,98,98,97,97,98,98,97,97,98,98,97,97,98>> :> <<92,179,29,0>>) @@
   (<<98,97,98,97,98,97,98,97,98,97,98,97,98,97,98,97,98,97,98,97>> :> <<102,238,143,252>>) @@
   (<<98,97,98,98,98,97,98,98,98,97,98,98,98,97,98,98,98,97,98,98>> :> <<35,151,70,30>>) @@
   (<<98,98,97,97,98,98,97,97,98,98,97,97,98,98,97,97,98,98,97,97>> :> <<165,98,78,168>>) @@
   (<<98,98,97,98,98,98,97,98,98,98,97,98,98,98,97,98,98,98,97,98>> :> <<43,236,150,182>>) @@
   (<<98,98,98,97,98,98,98,97,98,98,98,97,98,98,98,97,98,98,98,97>> :> <<206,115,170,242>>) @@
   (<<98,98,98,98,98,98,98,98,98,98,98,98,98,98,98,98,98,98,98,98>> :> <<26,137,152,187>>)

Blake2b4(buffer) == Blake2b4Table[buffer]

\* keys_buffer.join("") once key was pushed n times
RECURSIVE join_keys(_, _)
join_keys(key, n) == IF n = 0 THEN <<>> ELSE key \o join_keys(key, n - 1)

\* format!("{:x}", d): the hex digits of one byte, without a leading zero
hex_of_byte(d) == IF d < 16 THEN <<d>> ELSE <<d \div 16, d % 16>>

\* the four bytes of the digest formatted and joined
hex_of_digest(digest) ==
    hex_of_byte(digest[1]) \o hex_of_byte(digest[2]) \o hex_of_byte(digest[3])
        \o hex_of_byte(digest[4])

\* usize::from_str_radix(digits, 16) % m, reduced digit by digit from the i-th
\* on, so that every intermediate value stays below 16 * m: the same number
RECURSIVE radix_mod(_, _, _, _)
radix_mod(digits, i, acc, m) ==
    IF i > Len(digits) THEN acc
    ELSE radix_mod(digits, i + 1, (acc * 16 + digits[i]) % m, m)

\* the bits of a usize on the targets std is built for, 64 at most
UsizeBits == 64

\* usize::from_str_radix(&byte, 16) is Err (and hash_word returns
\* Error::HashWord) when the numeral of some probe does not fit a usize: it has
\* more hex digits than UsizeBits / 4
hash_word_fails(f, key) ==
    \E i \in 1..f.key_size :
        Len(hex_of_digest(Blake2b4(join_keys(key, i)))) * 4 > UsizeBits

\* hash_word panics on num % 0 when it computes a position of a filter of no bit
hash_word_panics(f) == f.key_size > 0 /\ f.bitfield_size = 0

\* a variant of hash_word: num % (self.bitfield_size + 1)
hash_word_off_by_one(f, key) ==
    [i \in 1..f.key_size |->
        radix_mod(hex_of_digest(Blake2b4(join_keys(key, i))), 1, 0, f.bitfield_size + 1)]

hash_word(f, key) ==
    [i \in 1..f.key_size |->
        radix_mod(hex_of_digest(Blake2b4(join_keys(key, i))), 1, 0, f.bitfield_size)]

\* 2u8.pow(bit_index)
Pow2(n) == IF n = 0 THEN 1 ELSE IF n = 1 THEN 2 ELSE IF n = 2 THEN 4
           ELSE IF n = 3 THEN 8 ELSE IF n = 4 THEN 16 ELSE IF n = 5 THEN 32
           ELSE IF n = 6 THEN 64 ELSE 128

\* byte & mask == mask, for a mask of one bit
bit_set(byte, bit_index) == (byte \div Pow2(bit_index)) % 2 = 1

\* a variant of or_bit: byte = mask, the bits set before are lost
or_bit_assign(byte, bit_index) == Pow2(bit_index)

\* byte |= mask
or_bit(byte, bit_index) ==
    IF bit_set(byte, bit_index) THEN byte ELSE byte + Pow2(bit_index)

\* the loop of insert over the positions, from the i-th on; bitfield[array_index]
\* is the (array_index + 1)-th byte here
RECURSIVE set_positions(_, _, _)
set_positions(bitfield, positions, i) ==
    IF i > Len(positions) THEN bitfield
    ELSE LET array_index == positions[i] \div 8
             bit_index == positions[i] % 8
         IN  set_positions(
                 [bitfield EXCEPT ![array_index + 1] = or_bit(@, bit_index)],
                 positions, i + 1)

BloomFilter_insert(f, key) ==
    [f EXCEPT !.bitfield = set_positions(f.bitfield, hash_word(f, key), 1)]

\* the all() of contains over the positions, from the i-th on: "false" at the
\* first bit not set, "panic" at a position outside the bit array met before that
RECURSIVE all_positions(_, _, _)
all_positions(bitfield, positions, i) ==
    IF i > Len(positions) THEN "true"
    ELSE LET array_index == positions[i] \div 8
             bit_index == positions[i] % 8
         IN  IF array_index >= Len(bitfield) THEN "panic"
             ELSE IF ~bit_set(bitfield[array_index + 1], bit_index) THEN "false"
             ELSE all_positions(bitfield, positions, i + 1)

\* BloomFilter::contains: "true", "false" or "panic"
BloomFilter_contains(f, key) ==
    IF hash_word_panics(f) THEN "panic"
    ELSE all_positions(f.bitfield, hash_word(f, key), 1)

----------------------------------------------------------------------------
(* Index: src/src/index.rs.  An index value is [error_rate, bloom_filters]. *)

\* a variant of map_insert: the map is emptied before the entry is added
map_insert_clear(map, name, value) == [n \in {name} |-> value]

\* HashMap::insert: the entry under name is added or replaced
map_insert(map, name, value) ==
    [n \in (DOMAIN map) \cup {name} |-> IF n = name THEN value ELSE map[n]]

Index_new(rate) == [error_rate |-> rate, bloom_filters |-> <<>>]

\* aggregate_tokens: the HashSet of the tokens of every line
aggregate_tokens(content) ==
    UNION {Range(Tokens(lines(content)[i])) : i \in DOMAIN lines(content)}

\* a variant of insert_tokens: the loop misses one token of two or more
RECURSIVE insert_tokens_but_one(_, _)
insert_tokens_but_one(f, tokens_agg) ==
    IF Cardinality(tokens_agg) <= 1 THEN
        (IF tokens_agg = {} THEN f
         ELSE BloomFilter_insert(f, CHOOSE t \in tokens_agg : TRUE))
    ELSE LET token == CHOOSE t \in tokens_agg : TRUE
         IN  insert_tokens_but_one(f, tokens_agg \ {token})

\* for token in tokens_agg { filter.insert(&token)?; }  The HashSet yields its
\* tokens in an order of its own; the bits set are the same in every order
RECURSIVE insert_tokens(_, _)
insert_tokens(f, tokens_agg) ==
    IF tokens_agg = {} THEN f
    ELSE LET token == CHOOSE t \in tokens_agg : TRUE
         IN  insert_tokens(BloomFilter_insert(f, token), tokens_agg \ {token})

\* Index::ingest panics when BloomFilter::new does, before it changes anything
ingest_panics(content) == new_panics(Cardinality(aggregate_tokens(content)))

\* Index::ingest returns Err(Error::HashWord) when filter.insert(&token)? does
\* for some token; the filter under construction is a local and is dropped
tokens_fail(idx, tokens_agg) ==
    LET f == BloomFilter_new(Cardinality(tokens_agg), idx.error_rate)
    IN  \E token \in tokens_agg : hash_word_fails(f, token)

ingest_fails(idx, content) == tokens_fail(idx, aggregate_tokens(content))

\* a variant of ingest_tokens: the tokens are inserted in the filter the name
\* already holds
ingest_tokens_merge(idx, name, tokens_agg) ==
    LET capacity == Cardinality(tokens_agg)
        fresh == BloomFilter_new(capacity, idx.error_rate)
        start == IF name \in DOMAIN idx.bloom_filters
                    /\ idx.bloom_filters[name].bitfield_size = fresh.bitfield_size
                 THEN idx.bloom_filters[name]
                 ELSE fresh
    IN  [idx EXCEPT !.bloom_filters = map_insert(@, name, insert_tokens(start, tokens_agg))]

\* Index::ingest from the token set on, when it returns Ok: a filter sized for
\* the set, every token inserted, stored under name
ingest_tokens(idx, name, tokens_agg) ==
    LET capacity == Cardinality(tokens_agg)
        f == insert_tokens(BloomFilter_new(capacity, idx.error_rate), tokens_agg)
    IN  [idx EXCEPT !.bloom_filters = map_insert(@, name, f)]

\* Index::ingest when it returns Ok: the index after the call
Index_ingest(idx, name, content) == ingest_tokens(idx, name, aggregate_tokens(content))

\* String's Ord: byte by byte, a proper prefix first
RECURSIVE str_less(_, _)
str_less(a, b) ==
    IF b = <<>> THEN FALSE
    ELSE IF a = <<>> THEN TRUE
    ELSE IF Head(a) # Head(b) THEN Head(a) < Head(b)
    ELSE str_less(Tail(a), Tail(b))

\* a variant of sort: the descending list
RECURSIVE sort_descending(_)
sort_descending(names) ==
    IF names = {} THEN <<>>
    ELSE LET least == CHOOSE n \in names : \A o \in names \ {n} : str_less(n, o)
         IN  Append(sort_descending(names \ {least}), least)

\* result.sort() over the names pushed: the ascending list of them
RECURSIVE sort(_)
sort(names) ==
    IF names = {} THEN <<>>
    ELSE LET least == CHOOSE n \in names : \A o \in names \ {n} : str_less(n, o)
         IN  <<least>> \o sort(names \ {least})

\* the loop over the tokens of one filter: "true" when every token is contained,
\* "false" at the first one that is not, "panic" when contains panics before
RECURSIVE all_tokens_match(_, _)
all_tokens_match(f, tokens) ==
    IF tokens = <<>> THEN "true"
    ELSE LET c == BloomFilter_contains(f, Head(tokens))
         IN  IF c = "true" THEN all_tokens_match(f, Tail(tokens)) ELSE c

None == [some |-> FALSE, list |-> <<>>]
Some(list) == [some |-> TRUE, list |-> list]

\* a variant of Index_search: tokens.all(...) without in_loop, as in
\* src/src/indexer/index.rs:41-55
Index_search_all(idx, keywords) ==
    LET tokens == Tokens(keywords)
        matches == [n \in DOMAIN idx.bloom_filters |->
                       all_tokens_match(idx.bloom_filters[n], tokens)]
        pushed == {n \in DOMAIN matches : matches[n] = "true"}
    IN  [panics |-> \E n \in DOMAIN matches : matches[n] = "panic",
         value |-> IF Cardinality(pushed) > 0 THEN Some(sort(pushed)) ELSE None]

\* Index::search: [panics, value], value being the Option inside Ok.  Every
\* filter is met, whatever the order, so search panics when the loop over some
\* filter does; a name is pushed when in_loop && all_tokens_match
Index_search(idx, keywords) ==
    LET tokens == Tokens(keywords)
        in_loop == tokens # <<>>
        matches == [n \in DOMAIN idx.bloom_filters |->
                       all_tokens_match(idx.bloom_filters[n], tokens)]
        pushed == {n \in DOMAIN matches : in_loop /\ matches[n] = "true"}
    IN  [panics |-> \E n \in DOMAIN matches : matches[n] = "panic",
         value |-> IF Cardinality(pushed) > 0 THEN Some(sort(pushed)) ELSE None]

----------------------------------------------------------------------------
(* Persisted form: serde_json over the derived Serialize and Deserialize.    *)
(* A JSON object is the sequence of its <<field, value>> pairs in the order  *)
(* they are written, a number is the sequence of its decimal digits (48 is   *)
(* "0"), an array is the sequence of its elements.                           *)

RECURSIVE to_digits(_)
to_digits(n) == IF n < 10 THEN <<48 + n>> ELSE Append(to_digits(n \div 10), 48 + (n % 10))

RECURSIVE from_digits_acc(_, _)
from_digits_acc(ds, acc) ==
    IF ds = <<>> THEN acc ELSE from_digits_acc(Tail(ds), acc * 10 + (Head(ds) - 48))

from_digits(ds) == from_digits_acc(ds, 0)

\* BloomFilter's derived Serialize: the fields in declaration order
serialize_filter(f) ==
    << <<"key_size", to_digits(f.key_size)>>,
       <<"bitfield", [i \in DOMAIN f.bitfield |-> to_digits(f.bitfield[i])]>>,
       <<"bitfield_size", to_digits(f.bitfield_size)>> >>

\* Index's derived Serialize; the HashMap writes its entries in the order it
\* iterates them, which is `order`
serialize(idx, order) ==
    << <<"error_rate", to_digits(idx.error_rate)>>,
       <<"bloom_filters",
         [i \in DOMAIN order |-> <<order[i], serialize_filter(idx.bloom_filters[order[i]])>>]>> >>

\* the values written under a field name
field_values(obj, name) ==
    LET at == {i \in DOMAIN obj : obj[i][1] = name}
    IN  [v \in at |-> obj[v][2]]

field(obj, name) == obj[CHOOSE i \in DOMAIN obj : obj[i][1] = name][2]

\* a derived struct visitor fails on a missing field and on a field met twice;
\* a field it does not know is skipped
struct_fails(obj, required) ==
    \E r \in required : Cardinality(DOMAIN field_values(obj, r)) # 1

FilterFields == {"key_size", "bitfield", "bitfield_size"}
IndexFields == {"error_rate", "bloom_filters"}

\* a bitfield element must be a u8
deserialize_filter_fails(rec) ==
    \/ struct_fails(rec, FilterFields)
    \/ \E i \in DOMAIN field(rec, "bitfield") : from_digits(field(rec, "bitfield")[i]) > 255

\* a variant of deserialize_filter: the bitfield is skipped and left empty
deserialize_filter_empty(rec) ==
    [key_size |-> from_digits(field(rec, "key_size")),
     bitfield |-> <<>>,
     bitfield_size |-> from_digits(field(rec, "bitfield_size"))]

deserialize_filter(rec) ==
    [key_size |-> from_digits(field(rec, "key_size")),
     bitfield |-> [i \in DOMAIN field(rec, "bitfield") |->
                      from_digits(field(rec, "bitfield")[i])],
     bitfield_size |-> from_digits(field(rec, "bitfield_size"))]

\* Index::restore panics (expect) when serde_json::from_str fails
restore_panics(content) ==
    \/ struct_fails(content, IndexFields)
    \/ \E i \in DOMAIN field(content, "bloom_filters") :
           deserialize_filter_fails(field(content, "bloom_filters")[i][2])

\* Index::restore when it returns; of two entries of one name the later stays
Index_restore(content) ==
    LET entries == field(content, "bloom_filters")
        names == {entries[i][1] : i \in DOMAIN entries}
        last(n) == CHOOSE i \in DOMAIN entries :
                      /\ entries[i][1] = n
                      /\ \A j \in DOMAIN entries : entries[j][1] = n => j <= i
    IN  [error_rate |-> from_digits(field(content, "error_rate")),
         bloom_filters |-> [n \in names |-> deserialize_filter(entries[last(n)][2])]]

----------------------------------------------------------------------------
(* Inputs *)

\* the error rates given to Index::new: 0.1 and 0.5
Rates == {10, 50}

\* the names documents are ingested under: "ab" and "b"
Names == {<<97, 98>>, <<98>>}

\* the words texts are made of: "a", "A,", " b" and "?" followed by a line
\* feed (a word may carry whitespace of its own, so that a text may hold two
\* separators in a row, a blank line, or start or end with whitespace)
Words == {<<97>>, <<65, 44>>, <<32, 98>>, <<63, 10>>}

\* a space or a line feed between the words
Separators == {32, LF}

RECURSIVE join_with(_, _)
join_with(ws, sep) ==
    IF ws = <<>> THEN <<>>
    ELSE IF Len(ws) = 1 THEN Head(ws)
    ELSE Head(ws) \o <<sep>> \o join_with(Tail(ws), sep)

\* the contents ingested and the queries searched
Texts == {join_with(ws, sep) : ws \in SeqsUpTo(Words, MaxWords), sep \in Separators}

\* the keys given to a filter on its own: "a", "b", "aa", "ab", "ba"
Keys == {<<97>>, <<98>>, <<97, 97>>, <<97, 98>>, <<98, 97>>}

\* the error rates given to BloomFilter::new on its own
FilterRates == {5, 20, 50, 99}

----------------------------------------------------------------------------
(* The index under ingest, search, dump and restore *)

index == [error_rate |-> error_rate, bloom_filters |-> bloom_filters]

NoOrig == [present |-> FALSE, idx |-> Index_new(0)]
NoFilter == [key_size |-> 0, bitfield |-> <<>>, bitfield_size |-> 0]

FilterIdle ==
    /\ filter = NoFilter
    /\ fArgs = [capacity |-> 0, err_rate |-> 0]
    /\ inserted = {}
    /\ fOp = "none"
    /\ fKey = <<>>
    /\ fResult = "false"

TokensIdle ==
    /\ text = <<>>
    /\ tWords = <<>>
    /\ yielded = <<>>
    /\ tOp = "none"

\* Index::new(error_rate)
Init ==
    /\ error_rate \in Rates
    /\ bloom_filters = <<>>
    /\ lastOp = "new"
    /\ outcome = "ok"
    /\ lastName = <<>>
    /\ lastTokens = <<>>
    /\ result = None
    /\ origResult = None
    /\ dumped = <<>>
    /\ docs = <<>>
    /\ replaced = FALSE
    /\ orig = NoOrig
    /\ input = <<>>
    /\ FilterIdle
    /\ TokensIdle

\* a variant of Ingest: a content of no token gets a filter of capacity 1,
\* empty, stored under the name
Ingest_clamp(name, content) ==
    LET tokens_agg == aggregate_tokens(content)
        capacity == IF tokens_agg = {} THEN 1 ELSE Cardinality(tokens_agg)
        f == insert_tokens(BloomFilter_new(capacity, error_rate), tokens_agg)
    IN  /\ lastOp' = "ingest"
        /\ lastName' = name
        /\ lastTokens' = <<>>
        /\ result' = None
        /\ origResult' = None
        /\ outcome' = "ok"
        /\ bloom_filters' = map_insert(bloom_filters, name, f)
        /\ docs' = map_insert(docs, name, tokens_agg)
        /\ replaced' = (name \in DOMAIN bloom_filters)
        /\ dumped' = <<>>
        /\ orig' = NoOrig
        /\ input' = <<>>
        /\ UNCHANGED <<error_rate, filterVars, tokenVars>>

\* index.ingest(name, content)
Ingest(name, content) ==
    /\ lastOp' = "ingest"
    /\ lastName' = name
    /\ lastTokens' = <<>>
    /\ result' = None
    /\ origResult' = None
    /\ LET tokens_agg == aggregate_tokens(content)
       IN  IF new_panics(Cardinality(tokens_agg))
           THEN /\ outcome' = "panic"
                /\ replaced' = FALSE
                /\ UNCHANGED <<error_rate, bloom_filters, docs, dumped, orig, input>>
           ELSE IF tokens_fail(index, tokens_agg)
           THEN /\ outcome' = "err"
                /\ replaced' = FALSE
                /\ UNCHANGED <<error_rate, bloom_filters, docs, dumped, orig, input>>
           ELSE LET after == ingest_tokens(index, name, tokens_agg)
                IN  /\ outcome' = "ok"
                    /\ error_rate' = after.error_rate
                    /\ bloom_filters' = after.bloom_filters
                    /\ docs' = map_insert(docs, name, tokens_agg)
                    /\ replaced' = (name \in DOMAIN bloom_filters)
                    /\ dumped' = <<>>
                    /\ orig' = NoOrig
                    /\ input' = <<>>
    /\ UNCHANGED <<filterVars, tokenVars>>

\* index.search(keywords)
Search(keywords) ==
    /\ lastOp' = "search"
    /\ lastName' = <<>>
    /\ replaced' = FALSE
    /\ lastTokens' = Tokens(keywords)
    /\ LET found == Index_search(index, keywords)
       IN  IF found.panics
           THEN outcome' = "panic" /\ result' = None
           ELSE outcome' = "ok" /\ result' = found.value
    /\ origResult' = None
    /\ UNCHANGED <<error_rate, bloom_filters, docs, dumped, orig, input>>
    /\ UNCHANGED <<filterVars, tokenVars>>

Next ==
    \/ \E name \in Names, content \in Texts : Ingest(name, content)
    \/ \E keywords \in Texts : Search(keywords)

Spec == Init /\ [][Next]_vars

----------------------------------------------------------------------------
(* The index under ingest, dump and restore *)

\* serde_json::to_string(&index): the map's entries in the order it yields them
Dump ==
    /\ \E order \in Orders(DOMAIN bloom_filters) : dumped' = serialize(index, order)
    /\ lastOp' = "dump"
    /\ outcome' = "ok"
    /\ lastName' = <<>>
    /\ replaced' = FALSE
    /\ lastTokens' = <<>>
    /\ result' = None
    /\ origResult' = None
    /\ UNCHANGED <<error_rate, bloom_filters, docs, orig, input>>
    /\ UNCHANGED <<filterVars, tokenVars>>

\* the index is replaced by Index::restore(content); orig keeps the index it
\* replaces
RestoreFrom(content) ==
    /\ lastOp' = "restore"
    /\ input' = content
    /\ lastName' = <<>>
    /\ replaced' = FALSE
    /\ lastTokens' = <<>>
    /\ result' = None
    /\ origResult' = None
    /\ IF restore_panics(content)
       THEN /\ outcome' = "panic"
            /\ UNCHANGED <<error_rate, bloom_filters, orig>>
       ELSE LET restored == Index_restore(content)
            IN  /\ outcome' = "ok"
                /\ error_rate' = restored.error_rate
                /\ bloom_filters' = restored.bloom_filters
                /\ orig' = [present |-> TRUE, idx |-> index]
    /\ UNCHANGED <<docs, dumped>>
    /\ UNCHANGED <<filterVars, tokenVars>>

\* the index is restored from its own dump
Restore ==
    /\ dumped # <<>>
    /\ RestoreFrom(dumped)

\* the same search on the restored index and on the index it replaced
SearchRestored(keywords) ==
    /\ orig.present
    /\ lastOp' = "search"
    /\ lastName' = <<>>
    /\ replaced' = FALSE
    /\ lastTokens' = <<>>
    /\ LET found == Index_search(index, keywords)
       IN  IF found.panics
           THEN outcome' = "panic" /\ result' = None
           ELSE outcome' = "ok" /\ result' = found.value
    /\ LET found == Index_search(orig.idx, keywords)
       IN  origResult' = IF found.panics THEN None ELSE found.value
    /\ UNCHANGED <<error_rate, bloom_filters, docs, dumped, orig, input>>
    /\ UNCHANGED <<filterVars, tokenVars>>

NextPersist ==
    \/ \E name \in Names, content \in Texts : Ingest(name, content)
    \/ Dump
    \/ Restore
    \/ \E keywords \in Texts : SearchRestored(keywords)

SpecPersist == Init /\ [][NextPersist]_vars

----------------------------------------------------------------------------
(* An index restored from a persisted text the caller supplies *)

\* the filter ingest builds at rate 0.1 for the tokens a and b
BaseFilter == insert_tokens(BloomFilter_new(2, 10), {<<97>>, <<98>>})

\* the ways a filter record is written: as dump writes it, without its
\* bitfield_size, with a field Deserialize does not know, with key_size twice
RecordShapes == {"dump", "missing", "unknown", "twice"}

filter_record(key_size, bitfield, bitfield_size, shape) ==
    LET k == <<"key_size", to_digits(key_size)>>
        b == <<"bitfield", [i \in DOMAIN bitfield |-> to_digits(bitfield[i])]>>
        m == <<"bitfield_size", to_digits(bitfield_size)>>
    IN  CASE shape = "dump" -> <<k, b, m>>
          [] shape = "missing" -> <<k, b>>
          [] shape = "unknown" -> <<k, b, m, <<"capacity", to_digits(2)>> >>
          [] shape = "twice" -> <<k, k, b, m>>

\* the ways the index is written: as dump writes it, without its error_rate,
\* with the capacity field of the earlier format (src/src/indexer/index.rs:16)
IndexShapes == {"dump", "missing", "unknown"}

index_text(entries, shape) ==
    LET e == <<"error_rate", to_digits(10)>>
        f == <<"bloom_filters", entries>>
    IN  CASE shape = "dump" -> <<e, f>>
          [] shape = "missing" -> <<f>>
          [] shape = "unknown" -> << <<"capacity", to_digits(1000)>>, e, f>>

\* the texts given to restore: one filter under "b", its probe count the one
\* of BaseFilter or 0, its bit length that one, 0 or 8 more, its bit array that
\* one or empty
PersistedInputs ==
    {index_text(<< <<<<98>>, filter_record(k, bits, m, rshape)>> >>, ishape) :
        k \in {BaseFilter.key_size, 0},
        bits \in {BaseFilter.bitfield, <<>>},
        m \in {BaseFilter.bitfield_size, 0, BaseFilter.bitfield_size + 8},
        rshape \in RecordShapes,
        ishape \in IndexShapes}

\* the program starts by restoring its index
RestoreInput(content) ==
    /\ lastOp = "new"
    /\ RestoreFrom(content)

NextRestore ==
    \/ \E content \in PersistedInputs : RestoreInput(content)
    \/ \E keywords \in Texts : Search(keywords)

SpecRestore == Init /\ [][NextRestore]_vars

----------------------------------------------------------------------------
(* One Bloom filter under new, insert and contains *)

InitFilter ==
    /\ error_rate = 0
    /\ bloom_filters = <<>>
    /\ lastOp = "new"
    /\ outcome = "ok"
    /\ lastName = <<>>
    /\ lastTokens = <<>>
    /\ result = None
    /\ origResult = None
    /\ dumped = <<>>
    /\ docs = <<>>
    /\ replaced = FALSE
    /\ orig = NoOrig
    /\ input = <<>>
    /\ FilterIdle
    /\ TokensIdle

\* BloomFilter::new(capacity, err_rate), capacity >= 1
FNew(capacity, err_rate) ==
    /\ ~new_panics(capacity)
    /\ filter' = BloomFilter_new(capacity, err_rate)
    /\ fArgs' = [capacity |-> capacity, err_rate |-> err_rate]
    /\ inserted' = {}
    /\ fOp' = "new"
    /\ fKey' = <<>>
    /\ fResult' = "false"
    /\ UNCHANGED <<indexVars, tokenVars>>

\* filter.insert(key)
FInsert(key) ==
    /\ fOp # "none"
    /\ filter' = BloomFilter_insert(filter, key)
    /\ inserted' = inserted \cup {key}
    /\ fOp' = "insert"
    /\ fKey' = key
    /\ fResult' = "false"
    /\ UNCHANGED <<fArgs, indexVars, tokenVars>>

\* filter.contains(key)
FContains(key) ==
    /\ fOp # "none"
    /\ fResult' = BloomFilter_contains(filter, key)
    /\ fOp' = "contains"
    /\ fKey' = key
    /\ UNCHANGED <<filter, fArgs, inserted, indexVars, tokenVars>>

NextFilter ==
    \/ \E capacity \in 0..MaxCapacity, err_rate \in FilterRates : FNew(capacity, err_rate)
    \/ \E key \in Keys : FInsert(key)
    \/ \E key \in Keys : FContains(key)

SpecFilter == InitFilter /\ [][NextFilter]_vars

----------------------------------------------------------------------------
(* Properties *)

\* the bit at position p of a filter's bit array
bit_at(f, p) == bit_set(f.bitfield[(p \div 8) + 1], p % 8)

\* the positions of a filter whose bit is set
set_bits(f) == {p \in 0..(8 * Len(f.bitfield) - 1) : bit_at(f, p)}

\* the names whose filter contains every one of the tokens
holders(tokens) ==
    {n \in DOMAIN bloom_filters :
        \A i \in DOMAIN tokens :
            BloomFilter_contains(bloom_filters[n], tokens[i]) = "true"}

\* C1: index-level no false negatives.  A search whose query yields at least
\* one token returns Some(list), and list holds every name whose last ingested
\* content has all the tokens of the query, whatever was ingested under other
\* names since and however the query is cased or punctuated.
C1_IndexNoFalseNegatives ==
    (lastOp = "search" /\ lastTokens # <<>>) =>
        \A n \in DOMAIN docs :
            Range(lastTokens) \subseteq docs[n] =>
                outcome = "ok" /\ result.some /\ n \in Range(result.list)

\* a search of two different tokens after two names were ingested, one whose
\* content has both tokens and is returned, one whose content has not
C1_Witness ==
    /\ lastOp = "search"
    /\ Len(lastTokens) = 2
    /\ lastTokens[1] # lastTokens[2]
    /\ \E n, o \in DOMAIN docs :
          /\ Range(lastTokens) \subseteq docs[n]
          /\ n \in Range(result.list)
          /\ ~(Range(lastTokens) \subseteq docs[o])

\* C2: replacement.  After an ingest under a name that already held a filter,
\* the name holds the filter a fresh index of the same error rate holds after
\* the same ingest alone (same k, m and bits), and every bit set in it is a
\* position of a token of the new content: no bit of the earlier ingest survives.
C2_Replacement ==
    (lastOp = "ingest" /\ outcome = "ok" /\ replaced) =>
        /\ lastName \in DOMAIN bloom_filters
        /\ bloom_filters[lastName] =
              ingest_tokens(Index_new(error_rate), lastName, docs[lastName])
                  .bloom_filters[lastName]
        /\ \A p \in set_bits(bloom_filters[lastName]) :
              \E t \in docs[lastName] :
                  p \in Range(hash_word(bloom_filters[lastName], t))

\* an ingest replaced a filter by one that differs from it
C2_Witness ==
    /\ lastOp = "ingest"
    /\ outcome = "ok"
    /\ replaced
    /\ docs[lastName] = {<<98>>}
    /\ set_bits(bloom_filters[lastName]) # {}

\* C3: search result.  A search whose query yields at least one token returns
\* Some(L), L being the names whose filter contains every token of the query,
\* each once and in ascending order, when there is such a name, and None when
\* there is none; no search returns Some of an empty list.
C3_SearchResult ==
    /\ lastOp = "search" => ~(result.some /\ result.list = <<>>)
    /\ (lastOp = "search" /\ lastTokens # <<>>) =>
          /\ outcome = "ok"
          /\ IF holders(lastTokens) # {}
             THEN /\ result.some
                  /\ Range(result.list) = holders(lastTokens)
                  /\ \A i, j \in DOMAIN result.list :
                        i < j => str_less(result.list[i], result.list[j])
             ELSE result = None

\* a search returned two names
C3_Witness ==
    /\ lastOp = "search"
    /\ lastTokens # <<>>
    /\ result.some
    /\ Len(result.list) = 2

\* C4: empty query.  A search whose query yields no token returns None,
\* whatever the index holds.
C4_EmptyQuery ==
    (lastOp = "search" /\ lastTokens = <<>>) => (outcome = "ok" /\ result = None)

\* a search of no token on an index of two filters
C4_Witness ==
    /\ lastOp = "search"
    /\ lastTokens = <<>>
    /\ Cardinality(DOMAIN bloom_filters) = 2

\* C5: dump stability.  The index restored from a dump of an index serializes
\* to the text it was restored from.
C5_DumpStable ==
    [][(lastOp' = "dump" /\ orig.present) => dumped' = dumped]_vars

\* C6: restore preserves query behaviour.  Every search on the index restored
\* from the serialized form of an index returns what the same search returns
\* on that index.
C6_RestorePreservesSearch ==
    (lastOp = "search" /\ orig.present) => (outcome = "ok" /\ result = origResult)

\* a search on a restored index of two filters returned both names
C6_Witness ==
    /\ lastOp = "search"
    /\ orig.present
    /\ result.some
    /\ Len(result.list) = 2

\* the shape dump writes: the two fields of the index, and in every filter
\* record the three fields, k >= 1, m > 0 and ceil(m / 8) bytes
field_names(obj) == [i \in DOMAIN obj |-> obj[i][1]]

well_shaped_filter(rec) ==
    /\ field_names(rec) = <<"key_size", "bitfield", "bitfield_size">>
    /\ from_digits(rec[1][2]) >= 1
    /\ from_digits(rec[3][2]) > 0
    /\ Len(rec[2][2]) = (from_digits(rec[3][2]) + 7) \div 8

well_shaped(content) ==
    /\ field_names(content) = <<"error_rate", "bloom_filters">>
    /\ \A i \in DOMAIN content[2][2] : well_shaped_filter(content[2][2][i][2])

\* C7: restore validation.  restore returns an index only for a text of the
\* shape dump writes, and no search on a restored index panics.
C7_RestoreValidates ==
    /\ (lastOp = "restore" /\ outcome = "ok") => well_shaped(input)
    /\ lastOp = "search" => outcome = "ok"

\* C8: filter-level no false negatives.  Every key inserted in a filter is
\* contained in it after any further inserts, and an insert clears no bit.
C8_FilterNoFalseNegatives ==
    /\ [](\A x \in inserted : BloomFilter_contains(filter, x) = "true")
    /\ [][fOp' = "insert" => set_bits(filter) \subseteq set_bits(filter')]_vars

\* contains is asked for a key inserted before two other keys
C8_Witness ==
    /\ fOp = "contains"
    /\ fKey \in inserted
    /\ Cardinality(inserted) = 3
    /\ fResult = "true"

\* the value of the digest's bytes, most significant first, modulo m
RECURSIVE digest_mod(_, _, _, _)
digest_mod(digest, i, acc, m) ==
    IF i > Len(digest) THEN acc
    ELSE digest_mod(digest, i + 1, (acc * 256 + digest[i]) % m, m)

\* C9: hash positions.  The i-th position hash_word computes for a key is the
\* unsigned value of the 4-byte digest of the key repeated i times (i from 1),
\* modulo m.
C9_HashPositions ==
    fOp # "none" =>
        \A key \in Keys : \A i \in 1..filter.key_size :
            hash_word(filter, key)[i] =
                digest_mod(Blake2b4(join_keys(key, i)), 1, 0, filter.bitfield_size)

\* C10: filter well-formedness.  A filter built with capacity >= 1 has m > 0,
\* k >= 1 and ceil(m / 8) bytes, all zero until a key is inserted; m, k and the
\* number of bytes are those new computes from (capacity, error rate), after
\* any inserts.
C10_FilterWellFormed ==
    fOp # "none" =>
        /\ filter.bitfield_size > 0
        /\ filter.key_size >= 1
        /\ Len(filter.bitfield) = (filter.bitfield_size + 7) \div 8
        /\ fOp = "new" => \A i \in DOMAIN filter.bitfield : filter.bitfield[i] = 0
        /\ filter.bitfield_size =
              BloomFilter_new(fArgs.capacity, fArgs.err_rate).bitfield_size
        /\ filter.key_size = BloomFilter_new(fArgs.capacity, fArgs.err_rate).key_size

\* keys were inserted in a filter of more than one byte
C10_Witness ==
    /\ fOp = "insert"
    /\ Cardinality(inserted) = 2
    /\ Len(filter.bitfield) > 1
    /\ filter.bitfield_size % 8 # 0

----------------------------------------------------------------------------
(* One Tokens iterator under new and next *)

\* the characters of the texts: a, A, the comma, the space, the line feed,
\* e acute, E acute and the inverted question mark
TokenChars == {97, 65, 44, 32, LF, 233, 201, 191}

TokenTexts == SeqsUpTo(TokenChars, MaxChars)

\* Tokens::new(text)
InitTokens ==
    /\ error_rate = 0
    /\ bloom_filters = <<>>
    /\ lastOp = "new"
    /\ outcome = "ok"
    /\ lastName = <<>>
    /\ lastTokens = <<>>
    /\ result = None
    /\ origResult = None
    /\ dumped = <<>>
    /\ docs = <<>>
    /\ replaced = FALSE
    /\ orig = NoOrig
    /\ input = <<>>
    /\ FilterIdle
    /\ text \in TokenTexts
    /\ tWords = split_whitespace(text)
    /\ yielded = <<>>
    /\ tOp = "new"

\* tokens.next()
TNext ==
    /\ LET item == Tokens_next(tWords)
       IN  /\ tWords' = item.words
           /\ yielded' = IF item.some THEN Append(yielded, item.token) ELSE yielded
           /\ tOp' = IF item.some THEN "some" ELSE "end"
    /\ UNCHANGED <<text, indexVars, filterVars>>

NextTokens == TNext

SpecTokens == InitTokens /\ [][NextTokens]_vars

----------------------------------------------------------------------------
(* Properties of the error paths, the tokenizer, the frame and the positions *)

\* C11: ingest is all-or-nothing on a hash failure.  A step of ingest that
\* returns Err(Error::HashWord) leaves the mapping, the filter already under
\* the name included, and the error rate as they were.
C11_IngestAllOrNothing ==
    [][(lastOp' = "ingest" /\ outcome' = "err") =>
          (bloom_filters' = bloom_filters /\ error_rate' = error_rate)]_vars

\* the positions at which a whitespace-delimited word of t starts
word_starts(t) ==
    {i \in DOMAIN t : ~IsWhitespace(t[i]) /\ (i = 1 \/ IsWhitespace(t[i - 1]))}

\* the word of t that starts at i: up to the character before the next
\* whitespace or the end
word_at(t, i) ==
    LET last == CHOOSE j \in i..Len(t) :
                    /\ \A k \in i..j : ~IsWhitespace(t[k])
                    /\ (j = Len(t) \/ IsWhitespace(t[j + 1]))
    IN  SubSeq(t, i, last)

\* the ASCII-folded, punctuation-stripped, lowercased form of a word, character
\* by character
normal_form(word) ==
    Flatten([i \in DOMAIN word |-> to_lowercase(clean_word(unidecode_char(word[i])))])

\* the normal forms of the words of t that are not empty, in the order of the words
expected_tokens(t) ==
    LET kept == {i \in word_starts(t) : normal_form(word_at(t, i)) # <<>>}
        nth(n) == CHOOSE i \in kept : Cardinality({j \in kept : j <= i}) = n
    IN  [n \in 1..Cardinality(kept) |-> normal_form(word_at(t, nth(n)))]

\* C12: tokenizer.  The tokens next has returned are the first ones of the
\* list of the non-empty normal forms (folded, stripped, lowercased) of the
\* whitespace-delimited words of the text, in input order, and all of that list
\* once next returns None; every token is non-empty and holds no punctuation
\* character and no uppercase letter; a text of whitespace and punctuation-only
\* words yields no token.
C12_Tokenizer ==
    tOp # "none" =>
        /\ Len(yielded) <= Len(expected_tokens(text))
        /\ yielded = SubSeq(expected_tokens(text), 1, Len(yielded))
        /\ tOp = "end" => yielded = expected_tokens(text)
        /\ tOp = "some" => yielded # <<>>
        /\ Tokens(text) = expected_tokens(text)
        /\ \A i \in DOMAIN yielded :
              /\ yielded[i] # <<>>
              /\ \A j \in DOMAIN yielded[i] :
                    /\ yielded[i][j] \notin Punctuation
                    /\ ~(yielded[i][j] >= 65 /\ yielded[i][j] <= 90)
        /\ (\A i \in DOMAIN text : IsWhitespace(text[i]) \/ text[i] \in Punctuation \cup {191})
              => yielded = <<>>

\* next returned None after one token, of a text of two words, one of them
\* dropped, one holding an E acute
C12_Witness ==
    /\ tOp = "end"
    /\ Cardinality(word_starts(text)) = 2
    /\ Len(yielded) = 1
    /\ \E i \in DOMAIN text : text[i] = 201

\* the contents that yield no token: empty, or of whitespace and punctuation
TokenlessTexts == {content \in Texts : aggregate_tokens(content) = {}}

\* C13: ingest of token-less content.  A step of ingest (under the name it
\* leaves in lastName) whose content yields no token panics (the zero-capacity panic of BloomFilter::new) and leaves the
\* mapping, an earlier filter under the name included, and the error rate as
\* they were.
C13_TokenlessIngest ==
    [][lastOp' = "ingest" =>
          \A content \in TokenlessTexts :
              Ingest(lastName', content) =>
                  (outcome' = "panic" /\ bloom_filters' = bloom_filters
                      /\ error_rate' = error_rate)]_vars

\* an ingest panicked under a name that holds a filter with bits set
C13_Witness ==
    /\ lastOp = "ingest"
    /\ outcome = "panic"
    /\ lastName \in DOMAIN bloom_filters
    /\ set_bits(bloom_filters[lastName]) # {}

\* C14: frame of ingest and search.  A step of ingest leaves the error rate
\* and the filter under every name but its own as they were, and adds no name
\* but its own; a step of search leaves the error rate and the mapping as they
\* were.
C14_Frame ==
    [][/\ lastOp' = "ingest" =>
              /\ error_rate' = error_rate
              /\ DOMAIN bloom_filters' \subseteq DOMAIN bloom_filters \cup {lastName'}
              /\ \A n \in DOMAIN bloom_filters \ {lastName'} :
                    n \in DOMAIN bloom_filters' /\ bloom_filters'[n] = bloom_filters[n]
       /\ lastOp' = "search" =>
              (error_rate' = error_rate /\ bloom_filters' = bloom_filters)]_vars

\* an ingest replaced the filter under one name while another name holds a
\* different filter
C14_Witness ==
    /\ lastOp = "ingest"
    /\ outcome = "ok"
    /\ replaced
    /\ \E n \in DOMAIN bloom_filters :
          n # lastName /\ bloom_filters[n] # bloom_filters[lastName]

\* C15: bit positions stay in range.  Every position hash_word computes for a
\* key is in 0..m-1 and its byte index is below the length of the bit array;
\* contains never reads out of range; after any inserts no bit at a position
\* >= m is set.
C15_PositionsInRange ==
    fOp # "none" =>
        /\ \A key \in Keys : \A i \in 1..filter.key_size :
              LET position == hash_word(filter, key)[i]
              IN  /\ position >= 0
                  /\ position < filter.bitfield_size
                  /\ position \div 8 < Len(filter.bitfield)
        /\ \A p \in set_bits(filter) : p < filter.bitfield_size
        /\ fResult # "panic"

\* an insert set the last bit of a filter whose last byte has padding bits
C15_Witness ==
    /\ fOp = "insert"
    /\ filter.bitfield_size % 8 # 0
    /\ bit_at(filter, filter.bitfield_size - 1)

=============================================================================
